---- MODULE Spec2Model ----
(***************************************************************************)
(* Mini-Bitcask: an append-only segment file, an in-memory offset index,   *)
(* a write-ahead log staging transactions, and the Storage engine that     *)
(* ties them together (src/src/segment.rs, index.rs, storage.rs), driven   *)
(* by the TCP front end's per-request handlers (src/src/server.rs).        *)
(*                                                                         *)
(* Files are modelled as byte sequences (file offset o is element o+1).    *)
(* Strings are sequences of byte values.                                   *)
(***************************************************************************)
EXTENDS Integers, Sequences, FiniteSets, TLC

\* ------------------------------------------------------------------ bounds
MaxOps   == 3     \* SET / DELETE requests handled in one behaviour
MaxOpens == 2     \* process restarts in one behaviour of Spec
NumConns == 2     \* client connections in SpecClients
MaxFaults == 1    \* I/O failures and kills in one behaviour of SpecFault

KeyA == <<97>>
KeyB == <<98>>
Val1 == <<49>>
Val22 == <<50, 50>>
Keys == {KeyA, KeyB}
Values == {Val1, Val22}
Conns == 1 .. NumConns

\* ------------------------------------------------------------ byte helpers
\* u32::to_le_bytes / u32::from_le_bytes
LE32(n) ==
  << n % 256, (n \div 256) % 256, (n \div 65536) % 256, (n \div 16777216) % 256 >>

\* little-endian value of the n bytes of buf that start at offset pos
RECURSIVE FromLE(_, _, _)
FromLE(buf, pos, n) ==
  IF n = 0 THEN 0 ELSE buf[pos + 1] + 256 * FromLE(buf, pos + 1, n - 1)

\* the bytes of buf from offset from (inclusive) to offset to (exclusive)
Slice(buf, from, to) == [i \in 1 .. (to - from) |-> buf[from + i]]

\* ----------------------------------------------- bincode, standard config
\* variable-length integer encoding of a length
VarintEnc(n) ==
  IF n < 251 THEN << n >>
  ELSE IF n < 65536 THEN << 251, n % 256, n \div 256 >>
  ELSE << 252 >> \o LE32(n)

\* decoding of a variable-length u64 at offset pos of buf
VarintDec(buf, pos) ==
  IF pos >= Len(buf) THEN [ok |-> FALSE, val |-> 0, next |-> pos]
  ELSE LET b == buf[pos + 1]
           w == IF b = 251 THEN 2 ELSE IF b = 252 THEN 4 ELSE IF b = 253 THEN 8 ELSE 0
       IN IF b < 251 THEN [ok |-> TRUE, val |-> b, next |-> pos + 1]
          ELSE IF w = 0 \/ pos + 1 + w > Len(buf)
                 THEN [ok |-> FALSE, val |-> 0, next |-> pos]
                 ELSE [ok |-> TRUE, val |-> FromLE(buf, pos + 1, w), next |-> pos + 1 + w]

\* a String is its length followed by its UTF-8 bytes
EncStr(s) == VarintEnc(Len(s)) \o s

\* UTF-8 validation, exact on the single-byte (ASCII) range; multi-byte
\* sequences are rejected, and no byte >= 128 is ever written by the model
ValidUtf8(s) == \A i \in 1 .. Len(s) : s[i] < 128

\* the bytes of a String whose decoded length is l
DecStrBytes(buf, pos, l) ==
  IF ~l.ok \/ l.next + l.val > Len(buf)
    THEN [ok |-> FALSE, val |-> <<>>, next |-> pos]
    ELSE IF ValidUtf8(Slice(buf, l.next, l.next + l.val))
           THEN [ok |-> TRUE, val |-> Slice(buf, l.next, l.next + l.val),
                 next |-> l.next + l.val]
           ELSE [ok |-> FALSE, val |-> <<>>, next |-> pos]

\* decoding of a String at offset pos of buf
DecStr(buf, pos) == DecStrBytes(buf, pos, VarintDec(buf, pos))

\* struct Record { key, value }
EncodeRecord(key, value) == EncStr(key) \o EncStr(value)

\* the Record made of the decoded fields k and v
DecodeRecordValue(k, v) ==
  IF ~v.ok THEN [ok |-> FALSE, key |-> <<>>, value |-> <<>>]
  ELSE [ok |-> TRUE, key |-> k.val, value |-> v.val]

\* the rest of a Record whose decoded key is k
DecodeRecordKey(buf, k) ==
  IF ~k.ok THEN [ok |-> FALSE, key |-> <<>>, value |-> <<>>]
  ELSE DecodeRecordValue(k, DecStr(buf, k.next))

\* decoding of a Record: key, then value (trailing bytes are accepted)
DecodeRecord(buf) == DecodeRecordKey(buf, DecStr(buf, 0))

\* enum WalOperation { Set { key, value }, Delete { key } }
SetOp(key, value) == [tag |-> "Set", key |-> key, value |-> value]
DeleteOp(key) == [tag |-> "Delete", key |-> key, value |-> <<>>]

EncodeWalOperation(op) ==
  IF op.tag = "Set" THEN << 0 >> \o EncStr(op.key) \o EncStr(op.value)
  ELSE << 1 >> \o EncStr(op.key)

\* the Set made of the decoded fields k and v
DecodeSetValue(k, v) ==
  IF ~v.ok THEN [ok |-> FALSE, op |-> DeleteOp(<<>>)]
  ELSE [ok |-> TRUE, op |-> SetOp(k.val, v.val)]

\* the rest of a WalOperation of variant t whose decoded key is k
DecodeOperationKey(buf, t, k) ==
  IF ~k.ok THEN [ok |-> FALSE, op |-> DeleteOp(<<>>)]
  ELSE IF t.val = 1 THEN [ok |-> TRUE, op |-> DeleteOp(k.val)]
  ELSE DecodeSetValue(k, DecStr(buf, k.next))

\* the rest of a WalOperation whose decoded variant index is t
DecodeVariant(buf, t) ==
  IF ~t.ok \/ t.val > 1 THEN [ok |-> FALSE, op |-> DeleteOp(<<>>)]
  ELSE DecodeOperationKey(buf, t, DecStr(buf, t.next))

\* decoding of a WalOperation: variant index (0 Set, 1 Delete), then fields
DecodeWalOperation(buf) == DecodeVariant(buf, VarintDec(buf, 0))

\* the frame written for a payload: u32 little-endian size, then the payload
\* (`as u32` does not truncate: payloads here are far shorter than 2^32)
Frame(payload) == LE32(Len(payload)) \o payload

\* --------------------------------------------------------------- Segment
\* Segment::new: the file is opened in append mode, write_offset = its length
SegmentNew(file) == [file |-> file, write_offset |-> Len(file)]

\* variant of Segment::set that leaves write_offset where it was
SegmentSetKeepsOffset(seg, key, value) ==
  [seg |-> [file |-> seg.file \o Frame(EncodeRecord(key, value)),
            write_offset |-> seg.write_offset],
   offset |-> seg.write_offset]

\* Segment::set: appends the frame, returns the write_offset before the call
SegmentSet(seg, key, value) ==
  LET serialized == EncodeRecord(key, value)
  IN [seg |-> [file |-> seg.file \o Frame(serialized),
               write_offset |-> seg.write_offset + 4 + Len(serialized)],
      offset |-> seg.write_offset]

\* Segment::get: seek to offset, read the size, read the payload, decode
SegmentGet(seg, offset) ==
  IF offset + 4 > Len(seg.file) THEN [ok |-> FALSE, key |-> <<>>, value |-> <<>>]
  ELSE LET size == FromLE(seg.file, offset, 4)
       IN IF offset + 4 + size > Len(seg.file)
            THEN [ok |-> FALSE, key |-> <<>>, value |-> <<>>]
            ELSE DecodeRecord(Slice(seg.file, offset + 4, offset + 4 + size))

\* the record Segment::delete writes
TombstoneKey == << 100, 101, 108, 101, 116, 101, 100 >>
Tombstone == EncodeRecord(TombstoneKey, <<>>)

\* variant of Segment::delete whose write lands at the offset it seeks to
SegmentDeleteInPlace(seg, offset) ==
  [file |-> [i \in 1 .. (IF offset + Len(Frame(Tombstone)) > Len(seg.file)
                           THEN offset + Len(Frame(Tombstone)) ELSE Len(seg.file)) |->
               IF i > offset /\ i <= offset + Len(Frame(Tombstone))
                 THEN Frame(Tombstone)[i - offset] ELSE seg.file[i]],
   write_offset |-> seg.write_offset]

\* Segment::delete: seeks to offset, but the file is in append mode, so the
\* write lands at the end of the file; write_offset is not touched
SegmentDelete(seg, offset) ==
  [file |-> seg.file \o Frame(Tombstone), write_offset |-> seg.write_offset]

\* ------------------------------------------------------------ WalSegment
\* write_all on a file opened read+write (no append): the bytes go to the
\* cursor, zero-filling a gap if the cursor is past the end
WriteAt(file, pos, bytes) ==
  LET end == pos + Len(bytes)
      n == IF end > Len(file) THEN end ELSE Len(file)
  IN [i \in 1 .. n |->
        IF i > pos /\ i <= end THEN bytes[i - pos]
        ELSE IF i <= Len(file) THEN file[i] ELSE 0]

\* WalSegment::new: the cursor starts at 0
WalNew(file) == [file |-> file, pos |-> 0]

\* variant of log_operation that rewinds before each write
WalLogOperationAtStart(w, op) ==
  LET bytes == Frame(EncodeWalOperation(op))
  IN [file |-> WriteAt(w.file, 0, bytes), pos |-> Len(bytes)]

\* WalSegment::log_operation
WalLogOperation(w, op) ==
  LET bytes == Frame(EncodeWalOperation(op))
  IN [file |-> WriteAt(w.file, w.pos, bytes), pos |-> w.pos + Len(bytes)]

\* the loop of WalSegment::read_operations, from cursor position pos
RECURSIVE ReadLoop(_, _, _)

\* the end of one iteration: d is the decoded payload that ended at offset next
ReadDecoded(file, next, operations, d) ==
  IF ~d.ok
    THEN [ok |-> FALSE, ops |-> <<>>, pos |-> next]
    ELSE ReadLoop(file, next, Append(operations, d.op))

\* one iteration, the size prefix read at pos being size
ReadFrame(file, pos, operations, size) ==
  IF pos + 4 + size > Len(file)
    THEN \* read_exact of the payload fails: the error is returned
         [ok |-> FALSE, ops |-> <<>>, pos |-> Len(file)]
    ELSE ReadDecoded(file, pos + 4 + size, operations,
                     DecodeWalOperation(Slice(file, pos + 4, pos + 4 + size)))

ReadLoop(file, pos, operations) ==
  IF pos + 4 > Len(file)
    THEN \* read_exact of the size fails with UnexpectedEof: break
         [ok |-> TRUE, ops |-> operations, pos |-> Len(file)]
    ELSE ReadFrame(file, pos, operations, FromLE(file, pos, 4))

\* the result of read_operations on w, r being what the loop returned
ReadResult(w, r) ==
  [ok |-> r.ok, ops |-> r.ops, wal |-> [file |-> w.file, pos |-> r.pos]]

\* WalSegment::read_operations: seek to 0, then the loop
WalReadOperations(w) == ReadResult(w, ReadLoop(w.file, 0, <<>>))

\* WalSegment::clear
WalClear(w) == [file |-> <<>>, pos |-> 0]

\* ------------------------------------------------------------------ Index
\* Index::new
IndexNew == << >>

\* Index::insert
IndexInsert(idx, key, offset) ==
  [k \in (DOMAIN idx) \cup {key} |-> IF k = key THEN offset ELSE idx[k]]

\* index.map.remove(key)
IndexRemove(idx, key) == [k \in (DOMAIN idx) \ {key} |-> idx[k]]

\* ---------------------------------------------------------------- Storage
\* struct Storage { segment, index, wal, in_transaction } is a record s.
\* results of Storage::get
Some(v) == [kind |-> "Some", val |-> v]
None == [kind |-> "None", val |-> <<>>]
GetErr == [kind |-> "Err", val |-> <<>>]

\* what Storage::get returns for the result r of Segment::get
GetResult(r) == IF r.ok THEN Some(r.value) ELSE GetErr

\* Storage::get
StorageGet(s, key) ==
  IF key \in DOMAIN s.index
    THEN GetResult(SegmentGet(s.segment, s.index[key]))
    ELSE None

\* one iteration of the replay loop of Storage::new
RecoverApply(s, op) ==
  IF op.tag = "Set"
    THEN LET r == SegmentSet(s.segment, op.key, op.value)
         IN [s EXCEPT !.segment = r.seg,
                      !.index = IndexInsert(s.index, op.key, r.offset)]
    ELSE IF op.key \in DOMAIN s.index
           THEN [s EXCEPT !.segment = SegmentDelete(s.segment, s.index[op.key]),
                          !.index = IndexRemove(s.index, op.key)]
           ELSE s

\* for op in operations { ... } of Storage::new
RECURSIVE RecoverLoop(_, _)
RecoverLoop(s, operations) ==
  IF operations = <<>> THEN s
  ELSE RecoverLoop(RecoverApply(s, Head(operations)), Tail(operations))

\* Storage::new after read_operations has returned r on the Storage storage0
Recover(storage0, r) ==
  IF ~r.ok THEN [ok |-> FALSE, s |-> [storage0 EXCEPT !.wal = r.wal]]
  ELSE IF r.ops # <<>>
         THEN [ok |-> TRUE,
               s |-> [RecoverLoop([storage0 EXCEPT !.wal = r.wal], r.ops)
                        EXCEPT !.wal = WalClear(r.wal)]]
         ELSE [ok |-> TRUE, s |-> [storage0 EXCEPT !.wal = r.wal]]

\* Storage::new on the bytes of the segment file and of the WAL file
StorageNew(segFile, walFile) ==
  Recover([segment |-> SegmentNew(segFile), index |-> IndexNew,
           wal |-> WalNew(walFile), in_transaction |-> FALSE],
          WalReadOperations(WalNew(walFile)))

\* variant of begin_transaction that clears the WAL before its check
StorageBeginClearsFirst(s) ==
  IF s.in_transaction THEN [ok |-> FALSE, s |-> [s EXCEPT !.wal = WalClear(s.wal)]]
  ELSE [ok |-> TRUE, s |-> [s EXCEPT !.in_transaction = TRUE, !.wal = WalClear(s.wal)]]

\* Storage::begin_transaction
StorageBeginTransaction(s) ==
  IF s.in_transaction THEN [ok |-> FALSE, s |-> s]
  ELSE [ok |-> TRUE, s |-> [s EXCEPT !.in_transaction = TRUE, !.wal = WalClear(s.wal)]]

\* variant of the commit loop body whose Delete leaves the index entry
CommitApplyKeepsIndex(s, op) ==
  IF op.tag = "Set"
    THEN LET r == SegmentSet(s.segment, op.key, op.value)
         IN [s EXCEPT !.segment = r.seg,
                      !.index = IndexInsert(s.index, op.key, r.offset)]
    ELSE IF op.key \in DOMAIN s.index
           THEN [s EXCEPT !.segment = SegmentDelete(s.segment, s.index[op.key])]
           ELSE s

\* one iteration of the replay loop of Storage::commit
CommitApply(s, op) ==
  IF op.tag = "Set"
    THEN LET r == SegmentSet(s.segment, op.key, op.value)
         IN [s EXCEPT !.segment = r.seg,
                      !.index = IndexInsert(s.index, op.key, r.offset)]
    ELSE IF op.key \in DOMAIN s.index
           THEN [s EXCEPT !.segment = SegmentDelete(s.segment, s.index[op.key]),
                          !.index = IndexRemove(s.index, op.key)]
           ELSE s

\* for op in operations { ... } of Storage::commit
RECURSIVE CommitLoop(_, _)
CommitLoop(s, operations) ==
  IF operations = <<>> THEN s
  ELSE CommitLoop(CommitApply(s, Head(operations)), Tail(operations))

\* variant of commit that does not clear the WAL
CommitOperationsKeepsWal(s, r) ==
  IF ~r.ok THEN [ok |-> FALSE, s |-> [s EXCEPT !.wal = r.wal]]
  ELSE [ok |-> TRUE,
        s |-> [CommitLoop([s EXCEPT !.wal = r.wal], r.ops)
                 EXCEPT !.in_transaction = FALSE]]

\* Storage::commit after read_operations has returned r
CommitOperations(s, r) ==
  IF ~r.ok THEN [ok |-> FALSE, s |-> [s EXCEPT !.wal = r.wal]]
  ELSE [ok |-> TRUE,
        s |-> [CommitLoop([s EXCEPT !.wal = r.wal], r.ops)
                 EXCEPT !.wal = WalClear(r.wal), !.in_transaction = FALSE]]

\* Storage::commit
StorageCommit(s) ==
  IF ~s.in_transaction THEN [ok |-> FALSE, s |-> s]
  ELSE CommitOperations(s, WalReadOperations(s.wal))

\* variant of rollback that leaves the WAL as it is
StorageRollbackKeepsWal(s) ==
  [ok |-> TRUE, s |-> [s EXCEPT !.in_transaction = FALSE]]

\* Storage::rollback
StorageRollback(s) ==
  [ok |-> TRUE, s |-> [s EXCEPT !.wal = WalClear(s.wal), !.in_transaction = FALSE]]

\* variant of set that also applies a buffered Set at once
StorageSetEager(s, key, value) ==
  LET r == SegmentSet(s.segment, key, value)
      w == IF s.in_transaction THEN WalLogOperation(s.wal, SetOp(key, value)) ELSE s.wal
  IN [ok |-> TRUE, offset |-> IF s.in_transaction THEN 0 ELSE r.offset,
      s |-> [s EXCEPT !.wal = w, !.segment = r.seg,
                      !.index = IndexInsert(s.index, key, r.offset)]]

\* Storage::set
StorageSet(s, key, value) ==
  IF s.in_transaction
    THEN [ok |-> TRUE, offset |-> 0,
          s |-> [s EXCEPT !.wal = WalLogOperation(s.wal, SetOp(key, value))]]
    ELSE LET r == SegmentSet(s.segment, key, value)
         IN [ok |-> TRUE, offset |-> r.offset,
             s |-> [s EXCEPT !.segment = r.seg,
                             !.index = IndexInsert(s.index, key, r.offset)]]

\* variant of delete whose direct branch leaves the index entry
StorageDeleteKeepsIndex(s, key) ==
  IF s.in_transaction
    THEN [ok |-> TRUE, s |-> [s EXCEPT !.wal = WalLogOperation(s.wal, DeleteOp(key))]]
    ELSE IF key \in DOMAIN s.index
           THEN [ok |-> TRUE,
                 s |-> [s EXCEPT !.segment = SegmentDelete(s.segment, s.index[key])]]
           ELSE [ok |-> TRUE, s |-> s]

\* variant of delete whose direct branch writes a tombstone for any key
StorageDeleteAlwaysWrites(s, key) ==
  IF s.in_transaction
    THEN [ok |-> TRUE, s |-> [s EXCEPT !.wal = WalLogOperation(s.wal, DeleteOp(key))]]
    ELSE [ok |-> TRUE,
          s |-> [s EXCEPT !.segment = SegmentDelete(s.segment, 0),
                          !.index = IndexRemove(s.index, key)]]

\* Storage::delete
StorageDelete(s, key) ==
  IF s.in_transaction
    THEN [ok |-> TRUE, s |-> [s EXCEPT !.wal = WalLogOperation(s.wal, DeleteOp(key))]]
    ELSE IF key \in DOMAIN s.index
           THEN [ok |-> TRUE,
                 s |-> [s EXCEPT !.segment = SegmentDelete(s.segment, s.index[key]),
                                 !.index = IndexRemove(s.index, key)]]
           ELSE [ok |-> TRUE, s |-> s]

\* -------------------------------------------------------------- failures
\* Each frame is written by two write_all calls, the 4-byte size and then the
\* payload. A call that fails writes nothing; the number of bytes of the frame
\* that are in the file when the operation returns the error is 0 or 4.
PartialWrites == {0, 4}

\* Segment::set when one of its write_all calls fails after part bytes:
\* the `?` returns before write_offset is advanced
SegmentSetFails(seg, key, value, part) ==
  [file |-> seg.file \o SubSeq(Frame(EncodeRecord(key, value)), 1, part),
   write_offset |-> seg.write_offset]

\* Segment::delete when one of its write_all calls fails after part bytes
SegmentDeleteFails(seg, part) ==
  [file |-> seg.file \o SubSeq(Frame(Tombstone), 1, part),
   write_offset |-> seg.write_offset]

\* the iteration of the commit loop on op does I/O on the segment file
CommitApplyWrites(s, op) == op.tag = "Set" \/ op.key \in DOMAIN s.index

\* one iteration of the replay loop of Storage::commit whose segment call
\* fails: the `?` returns before the index is touched
CommitApplyFails(s, op, part) ==
  IF op.tag = "Set"
    THEN [s EXCEPT !.segment = SegmentSetFails(s.segment, op.key, op.value, part)]
    ELSE [s EXCEPT !.segment = SegmentDeleteFails(s.segment, part)]

\* Storage::commit, read_operations having returned r, when the segment call
\* of the i-th operation fails: the operations before it are applied, the WAL
\* is not cleared and in_transaction stays true
CommitOperationsFail(s, r, i, part) ==
  [ok |-> FALSE,
   s |-> CommitApplyFails(CommitLoop([s EXCEPT !.wal = r.wal], SubSeq(r.ops, 1, i - 1)),
                          r.ops[i], part)]

\* Storage::begin_transaction when set_len of WalSegment::clear fails: the
\* flag has been set before the call, the `?` returns the error
StorageBeginClearFails(s) ==
  IF s.in_transaction THEN [ok |-> FALSE, s |-> s]
  ELSE [ok |-> FALSE, s |-> [s EXCEPT !.in_transaction = TRUE]]

\* number of bytes of a frame of log_operation that reached the WAL file when
\* the process was killed inside the call: part of the size, the size alone,
\* the size and part of the payload
TornLengths == {2, 4, 6}

\* the WAL file after log_operation was cut short after n bytes
WalLogOperationTorn(w, op, n) ==
  [file |-> WriteAt(w.file, w.pos, SubSeq(Frame(EncodeWalOperation(op)), 1, n)),
   pos |-> w.pos + n]

\* ------------------------------------------------------------ the system
VARIABLES
  storage,   \* the Storage behind the Mutex (server.rs: Arc<Mutex<Storage>>);
             \* while the process is down only the two files in it are meaningful
  running,   \* the server process is up and Storage::new has returned
  last,      \* the request handled last and its outcome
  nops,      \* number of SET / DELETE requests handled so far
  opens,     \* number of times the process was restarted
  pre,       \* history: the Storage as it was when the open transaction began
  txOps,     \* history: the operations issued since the last successful BEGIN
  shadow,    \* history: `pre` with the same operations applied with no transaction
  txOwner,   \* history: the connection whose BEGIN opened the transaction, or 0
  closed,    \* history: the Storage as it was when the process last stopped
  maxOff,    \* history: the largest offset a direct set has returned on this
             \* Storage instance, or -1
  faults,    \* number of I/O failures and kills inside a write so far
  failed     \* history: number of commit calls that have failed since the last
             \* operation was buffered in the open transaction

vars == << storage, running, last, nops, opens, pre, txOps, shadow, txOwner, closed,
          maxOff, faults, failed >>

\* the Storage of a fresh path; also the value of a history variable that is
\* not in use
Fresh == StorageNew(<<>>, <<>>).s

\* the history variables, as a record; they are kept while a transaction is
\* open or the process is down, and handed to `last` by the step that ends it
Hist == [pre |-> pre, txOps |-> txOps, shadow |-> shadow, owner |-> txOwner,
         closed |-> closed, failed |-> failed]
NoHist == [pre |-> Fresh, txOps |-> <<>>, shadow |-> Fresh, owner |-> 0,
           closed |-> Fresh, failed |-> 0]

Outcome(op, c, key, value, ok, intx, got, offset, hist) ==
  [op |-> op, conn |-> c, key |-> key, value |-> value, ok |-> ok,
   intx |-> intx, got |-> got, offset |-> offset, hist |-> hist]

\* run_server: Storage::new on the path, here on files that do not exist yet
Init ==
  /\ storage = Fresh
  /\ running = TRUE
  /\ last = Outcome("new", 0, <<>>, <<>>, TRUE, FALSE, None, 0, NoHist)
  /\ nops = 0
  /\ opens = 0
  /\ pre = Fresh
  /\ txOps = <<>>
  /\ shadow = Fresh
  /\ txOwner = 0
  /\ closed = Fresh
  /\ maxOff = -1
  /\ faults = 0
  /\ failed = 0

\* Each handler locks the Mutex for the one Storage call it makes and
\* releases it when the call returns, so a handler is one atomic step.

\* handle_set_command on connection c
HandleSet(c, key, value) ==
  /\ running
  /\ nops < MaxOps
  /\ \E r \in {StorageSet(storage, key, value)} :
        /\ storage' = r.s
        /\ last' = Outcome("set", c, key, value, r.ok, storage.in_transaction,
                           None, r.offset, NoHist)
        /\ txOps' = IF storage.in_transaction THEN Append(txOps, SetOp(key, value)) ELSE txOps
        /\ shadow' = IF storage.in_transaction THEN StorageSet(shadow, key, value).s ELSE shadow
        /\ maxOff' = IF ~storage.in_transaction /\ r.ok /\ r.offset > maxOff
                        THEN r.offset ELSE maxOff
        /\ failed' = IF storage.in_transaction THEN 0 ELSE failed
  /\ nops' = nops + 1
  /\ UNCHANGED << running, opens, pre, txOwner, closed, faults >>

\* handle_get_command on connection c
HandleGet(c, key) ==
  /\ running
  /\ \E got \in {StorageGet(storage, key)} :
        last' = Outcome("get", c, key, <<>>, got # GetErr,
                        storage.in_transaction, got, 0, NoHist)
  /\ UNCHANGED << storage, running, nops, opens, pre, txOps, shadow, txOwner, closed,
                  maxOff, faults, failed >>

\* handle_delete_command on connection c
HandleDelete(c, key) ==
  /\ running
  /\ nops < MaxOps
  /\ \E r \in {StorageDelete(storage, key)} :
        /\ storage' = r.s
        /\ last' = Outcome("delete", c, key, <<>>, r.ok, storage.in_transaction,
                           None, 0, NoHist)
        /\ txOps' = IF storage.in_transaction THEN Append(txOps, DeleteOp(key)) ELSE txOps
        /\ shadow' = IF storage.in_transaction THEN StorageDelete(shadow, key).s ELSE shadow
        /\ failed' = IF storage.in_transaction THEN 0 ELSE failed
  /\ nops' = nops + 1
  /\ UNCHANGED << running, opens, pre, txOwner, closed, maxOff, faults >>

\* handle_transaction_command("BEGIN") on connection c
HandleBegin(c) ==
  /\ running
  /\ \E r \in {StorageBeginTransaction(storage)} :
        /\ storage' = r.s
        /\ last' = Outcome("begin", c, <<>>, <<>>, r.ok, storage.in_transaction,
                           None, 0, NoHist)
        /\ pre' = IF r.ok THEN storage ELSE pre
        /\ shadow' = IF r.ok THEN storage ELSE shadow
        /\ txOps' = IF r.ok THEN <<>> ELSE txOps
        /\ txOwner' = IF r.ok THEN c ELSE txOwner
        /\ failed' = IF r.ok THEN 0 ELSE failed
  /\ UNCHANGED << running, nops, opens, closed, maxOff, faults >>

\* handle_transaction_command("COMMIT") on connection c
HandleCommit(c) ==
  /\ running
  /\ \E r \in {StorageCommit(storage)} :
        /\ storage' = r.s
        /\ last' = Outcome("commit", c, <<>>, <<>>, r.ok, storage.in_transaction,
                           None, 0, IF r.ok THEN Hist ELSE NoHist)
        /\ pre' = IF r.ok THEN Fresh ELSE pre
        /\ shadow' = IF r.ok THEN Fresh ELSE shadow
        /\ txOps' = IF r.ok THEN <<>> ELSE txOps
        /\ txOwner' = IF r.ok THEN 0 ELSE txOwner
        /\ failed' = IF r.ok THEN 0 ELSE failed
  /\ UNCHANGED << running, nops, opens, closed, maxOff, faults >>

\* handle_transaction_command("ROLLBACK") on connection c
HandleRollback(c) ==
  /\ running
  /\ \E r \in {StorageRollback(storage)} :
        /\ storage' = r.s
        /\ last' = Outcome("rollback", c, <<>>, <<>>, r.ok, storage.in_transaction,
                           None, 0, Hist)
  /\ pre' = Fresh
  /\ shadow' = Fresh
  /\ txOps' = <<>>
  /\ txOwner' = 0
  /\ failed' = 0
  /\ UNCHANGED << running, nops, opens, closed, maxOff, faults >>

\* the process stops (exit or kill between two requests): the Storage value
\* is dropped, the segment file and the WAL file stay as they are
Close ==
  /\ running
  /\ opens < MaxOpens
  /\ running' = FALSE
  /\ closed' = storage
  /\ storage' = [segment |-> [file |-> storage.segment.file, write_offset |-> 0],
                 index |-> IndexNew,
                 wal |-> [file |-> storage.wal.file, pos |-> 0],
                 in_transaction |-> FALSE]
  /\ last' = Outcome("close", 0, <<>>, <<>>, TRUE, storage.in_transaction,
                     None, 0, NoHist)
  /\ maxOff' = -1
  /\ UNCHANGED << nops, opens, pre, txOps, shadow, txOwner, faults, failed >>

\* the process starts again on the same path: run_server calls Storage::new
Open ==
  /\ ~running
  /\ opens < MaxOpens
  /\ \E r \in {StorageNew(storage.segment.file, storage.wal.file)} :
        /\ running' = r.ok
        /\ storage' = IF r.ok THEN r.s ELSE storage
        /\ last' = Outcome("open", 0, <<>>, <<>>, r.ok, FALSE, None, 0,
                           IF r.ok THEN Hist ELSE NoHist)
        /\ pre' = IF r.ok THEN Fresh ELSE pre
        /\ shadow' = IF r.ok THEN Fresh ELSE shadow
        /\ txOps' = IF r.ok THEN <<>> ELSE txOps
        /\ txOwner' = IF r.ok THEN 0 ELSE txOwner
        /\ closed' = IF r.ok THEN Fresh ELSE closed
        /\ failed' = IF r.ok THEN 0 ELSE failed
  /\ opens' = opens + 1
  /\ UNCHANGED << nops, maxOff, faults >>

\* handle_transaction_command("BEGIN") on connection c when clearing the WAL
\* fails with an I/O error
HandleBeginFails(c) ==
  /\ running
  /\ faults < MaxFaults
  /\ ~storage.in_transaction
  /\ \E r \in {StorageBeginClearFails(storage)} :
        /\ storage' = r.s
        /\ last' = Outcome("begin", c, <<>>, <<>>, r.ok, storage.in_transaction,
                           None, 0, NoHist)
  /\ faults' = faults + 1
  /\ UNCHANGED << running, nops, opens, pre, txOps, shadow, txOwner, closed,
                  maxOff, failed >>

\* handle_transaction_command("COMMIT") on connection c when the segment write
\* of the i-th buffered operation fails with an I/O error after part bytes
HandleCommitFails(c, i, part) ==
  /\ running
  /\ faults < MaxFaults
  /\ storage.in_transaction
  /\ \E r \in {WalReadOperations(storage.wal)} :
        /\ r.ok
        /\ i \in 1 .. Len(r.ops)
        /\ CommitApplyWrites(CommitLoop(storage, SubSeq(r.ops, 1, i - 1)), r.ops[i])
        /\ storage' = CommitOperationsFail(storage, r, i, part).s
  /\ last' = Outcome("commit", c, <<>>, <<>>, FALSE, storage.in_transaction,
                     None, 0, NoHist)
  /\ faults' = faults + 1
  /\ failed' = failed + 1
  /\ UNCHANGED << running, nops, opens, pre, txOps, shadow, txOwner, closed, maxOff >>

\* the process is killed inside the log_operation call of a SET or DELETE
\* request of an open transaction, n bytes of the frame being in the WAL file
CrashInLog(op, n) ==
  /\ running
  /\ opens < MaxOpens
  /\ faults < MaxFaults
  /\ storage.in_transaction
  /\ n < Len(Frame(EncodeWalOperation(op)))
  /\ running' = FALSE
  /\ \E w \in {WalLogOperationTorn(storage.wal, op, n)} :
        /\ closed' = [storage EXCEPT !.wal = w]
        /\ storage' = [segment |-> [file |-> storage.segment.file, write_offset |-> 0],
                       index |-> IndexNew,
                       wal |-> [file |-> w.file, pos |-> 0],
                       in_transaction |-> FALSE]
  /\ last' = Outcome("crash", 0, <<>>, <<>>, FALSE, storage.in_transaction,
                     None, 0, NoHist)
  /\ maxOff' = -1
  /\ faults' = faults + 1
  /\ UNCHANGED << nops, opens, pre, txOps, shadow, txOwner, failed >>

\* One client connection, process restarts included.
Next ==
  \/ \E key \in Keys, value \in Values : HandleSet(1, key, value)
  \/ \E key \in Keys : HandleGet(1, key)
  \/ \E key \in Keys : HandleDelete(1, key)
  \/ HandleBegin(1)
  \/ HandleCommit(1)
  \/ HandleRollback(1)
  \/ Close
  \/ Open

Spec == Init /\ [][Next]_vars

\* Several client connections (run_server spawns one handle_client task per
\* accepted socket, all sharing the one Storage), no restart.
NextClients ==
  \/ \E c \in Conns, key \in Keys, value \in Values : HandleSet(c, key, value)
  \/ \E c \in Conns, key \in Keys : HandleGet(c, key)
  \/ \E c \in Conns, key \in Keys : HandleDelete(c, key)
  \/ \E c \in Conns : HandleBegin(c)
  \/ \E c \in Conns : HandleCommit(c)
  \/ \E c \in Conns : HandleRollback(c)

SpecClients == Init /\ [][NextClients]_vars

\* One client connection, with I/O failures of BEGIN and COMMIT and with the
\* process killed inside a WAL write.
NextFault ==
  \/ \E key \in Keys, value \in Values : HandleSet(1, key, value)
  \/ \E key \in Keys : HandleGet(1, key)
  \/ \E key \in Keys : HandleDelete(1, key)
  \/ HandleBegin(1)
  \/ HandleCommit(1)
  \/ HandleRollback(1)
  \/ HandleBeginFails(1)
  \/ \E i \in 1 .. MaxOps, part \in PartialWrites : HandleCommitFails(1, i, part)
  \/ \E key \in Keys, value \in Values, n \in TornLengths : CrashInLog(SetOp(key, value), n)
  \/ \E key \in Keys, n \in TornLengths : CrashInLog(DeleteOp(key), n)
  \/ Open

SpecFault == Init /\ [][NextFault]_vars

TypeOK ==
  /\ running \in BOOLEAN
  /\ storage.in_transaction \in BOOLEAN
  /\ nops \in 0 .. MaxOps
  /\ opens \in 0 .. MaxOpens

\* ----------------------------------------------------------- properties
\* what get(k) is to return after the operations ops, issued in this order,
\* on a store in which get returned base[k]
RECURSIVE Expect(_, _, _)
Expect(base, ops, k) ==
  IF ops = <<>> THEN base[k]
  ELSE LET o == ops[Len(ops)]
       IN IF o.key = k
            THEN IF o.tag = "Set" THEN Some(o.value) ELSE None
            ELSE Expect(base, SubSeq(ops, 1, Len(ops) - 1), k)

GetsOf(s) == [k \in Keys |-> StorageGet(s, k)]
EmptyStore == [k \in Keys |-> None]

\* the operations the WAL file of s holds
WalContents(s) == ReadLoop(s.wal.file, 0, <<>>).ops

\* C1: with no transaction open, set(key, value) followed at once by
\* get(key) returns value.
C1_RoundTrip ==
  (running /\ last.op = "set" /\ ~last.intx /\ last.ok)
    => StorageGet(storage, last.key) = Some(last.value)

\* C2: after begin, buffered set/delete calls and a successful commit, get(k)
\* is, for every key, the result of applying the buffered operations in the
\* order issued to the pre-transaction key-to-value state.
C2_CommitAppliesInOrder ==
  (last.op = "commit" /\ last.ok)
    => \A k \in Keys :
         StorageGet(storage, k) = Expect(GetsOf(last.hist.pre), last.hist.txOps, k)

\* C3: while a transaction is open, get(k) returns for every key what it
\* returned just before begin, whatever has been buffered since.
C3_BufferedInvisible ==
  (running /\ storage.in_transaction)
    => \A k \in Keys : StorageGet(storage, k) = StorageGet(pre, k)

\* a buffered Delete of a key that get still returns, after an earlier
\* buffered operation
C3_Witness ==
  /\ running /\ storage.in_transaction
  /\ Len(txOps) >= 2
  /\ last.op = "delete"
  /\ StorageGet(storage, last.key).kind = "Some"

\* C4: after closing an engine whose WAL is empty and reopening it on the
\* same path, get(k) returns for every key what it returned before the close.
C4_ReopenKeepsData ==
  (last.op = "open" /\ last.ok /\ last.hist.closed.wal.file = <<>>)
    => \A k \in Keys : StorageGet(storage, k) = StorageGet(last.hist.closed, k)

\* C5: rollback of an open transaction leaves the index, the segment and
\* every get result as they were just before begin, the WAL empty and the
\* engine Idle.
C5_RollbackRestores ==
  (last.op = "rollback" /\ last.intx /\ last.ok)
    => /\ storage.index = last.hist.pre.index
       /\ storage.segment = last.hist.pre.segment
       /\ \A k \in Keys : StorageGet(storage, k) = StorageGet(last.hist.pre, k)
       /\ storage.wal.file = <<>>
       /\ ~storage.in_transaction

\* a rollback that discarded at least two buffered operations, on a store
\* that held a key
C5_Witness ==
  /\ last.op = "rollback" /\ last.intx /\ last.ok
  /\ Len(last.hist.txOps) >= 2
  /\ DOMAIN storage.index # {}

\* C6: opening the engine on a WAL that holds a sequence of operations, with
\* an empty segment file, leaves get(k) for every key equal to the result of
\* applying the sequence in order to an empty store, the WAL empty and the
\* engine Idle.
C6_RecoveryReplay ==
  (last.op = "open" /\ last.ok
     /\ last.hist.closed.segment.file = <<>>
     /\ WalContents(last.hist.closed) = last.hist.txOps)
    => /\ \A k \in Keys :
            StorageGet(storage, k) = Expect(EmptyStore, last.hist.txOps, k)
       /\ storage.wal.file = <<>>
       /\ ~storage.in_transaction

\* C7: begin, a sequence of set/delete calls and a successful commit leave
\* the same observable state (every get result, WAL empty, Idle) as the same
\* calls issued with no transaction from the same starting state.
C7_TxEqualsDirect ==
  (last.op = "commit" /\ last.ok)
    => /\ \A k \in Keys : StorageGet(storage, k) = StorageGet(last.hist.shadow, k)
       /\ storage.wal.file = last.hist.shadow.wal.file
       /\ storage.wal.file = <<>>
       /\ storage.in_transaction = last.hist.shadow.in_transaction
       /\ ~storage.in_transaction

\* a commit of at least two operations that removed a key and stored another
C7_Witness ==
  /\ last.op = "commit" /\ last.ok
  /\ Len(last.hist.txOps) >= 2
  /\ \E k \in Keys : /\ StorageGet(last.hist.pre, k).kind = "Some"
                     /\ StorageGet(storage, k) = None
  /\ DOMAIN storage.index # {}

\* C8: with no transaction open, after delete(key) has returned
\* successfully get(key) returns None.
C8_DeleteVisibility ==
  (running /\ last.op = "delete" /\ ~last.intx /\ last.ok)
    => StorageGet(storage, last.key) = None

\* a direct delete of a key that was set: its tombstone is in the file
C8_Witness ==
  /\ running /\ last.op = "delete" /\ ~last.intx /\ last.ok
  /\ Len(storage.segment.file) > storage.segment.write_offset

\* a request from a connection other than the one that opened the transaction
ForeignRequest ==
  /\ last.op \in {"get", "set", "delete"}
  /\ last.intx
  /\ txOwner # 0
  /\ last.conn # txOwner

\* C9 as stated: while a transaction begun through one connection is open, no
\* get, set or delete issued through another connection is executed.
C9_TxBlocksOthers == ~ForeignRequest

\* C9 as amended: such a request is executed; a get returns what get returned
\* before begin, a set or delete succeeds by being appended to the open
\* transaction's WAL and leaves the segment and the index as they were before
\* begin.
C9_OthersJoinTx ==
  ForeignRequest
    => /\ storage.in_transaction
       /\ storage.segment = pre.segment
       /\ storage.index = pre.index
       /\ (last.op = "get" => last.got = StorageGet(pre, last.key))
       /\ (last.op = "set" =>
             /\ last.ok /\ last.offset = 0
             /\ txOps # <<>> /\ txOps[Len(txOps)] = SetOp(last.key, last.value))
       /\ (last.op = "delete" =>
             /\ last.ok
             /\ txOps # <<>> /\ txOps[Len(txOps)] = DeleteOp(last.key))
       /\ WalContents(storage) = txOps

\* a Set from another connection buffered behind an operation of the owner's
C9_Witness ==
  /\ ForeignRequest
  /\ last.op = "set"
  /\ Len(txOps) = 2

\* C10: begin while a transaction is open fails, commit while none is open
\* fails, and neither changes in_transaction, the WAL, the index or the segment.
C10_UsageErrorsChangeNothing ==
  [][ /\ (last'.op = "begin" /\ storage.in_transaction)
          => (~last'.ok /\ storage' = storage)
      /\ (last'.op = "commit" /\ ~storage.in_transaction)
          => (~last'.ok /\ storage' = storage) ]_vars

\* a begin refused while the open transaction has operations in the WAL
C10_Witness ==
  /\ last.op = "begin" /\ ~last.ok
  /\ storage.in_transaction
  /\ storage.wal.file # <<>>

\* C11: with no transaction open, every successful set returns an offset
\* strictly greater than the offset returned by every earlier successful
\* direct set on the same Storage instance, whatever was called in between.
C11_OffsetsGrow ==
  [][ (last'.op = "set" /\ ~storage.in_transaction /\ last'.ok)
        => last'.offset > maxOff ]_vars

\* a direct set that follows an earlier direct set and a tombstone write on
\* the same instance
C11_Witness ==
  /\ running /\ last.op = "set" /\ ~last.intx /\ last.ok
  /\ last.offset = maxOff /\ last.offset > 0
  /\ Len(storage.segment.file) > storage.segment.write_offset

\* C12 (I1): for every key in the index, the stored offset is the start of a
\* frame in the segment log that decodes to a record whose key is that key,
\* never a tombstone and never another key's record.
C12_IndexValid ==
  running =>
    \A k \in DOMAIN storage.index :
       \E r \in {SegmentGet(storage.segment, storage.index[k])} :
          r.ok /\ r.key = k

\* C13: when the process stops while a transaction is open, the next open
\* replays the WAL as if the transaction had been committed: get returns for
\* every key the buffered operations touched what they made of it, applied in
\* order, the WAL is empty and the engine is Idle.
C13_AbandonedTxReplayed ==
  (last.op = "open" /\ last.ok /\ last.hist.closed.in_transaction)
    => /\ \A k \in Keys :
            (\E i \in 1 .. Len(last.hist.txOps) : last.hist.txOps[i].key = k)
              => StorageGet(storage, k) = Expect(EmptyStore, last.hist.txOps, k)
       /\ storage.wal.file = <<>>
       /\ ~storage.in_transaction

\* C16 (I2): with no crash and no I/O failure, whenever the engine is up and
\* in_transaction is false the WAL file is empty: after construction and
\* recovery, after commit, after rollback and after every direct set/delete.
C16_WalEmptyAtRest ==
  (running /\ ~storage.in_transaction) => storage.wal.file = <<>>

\* the engine Idle after a commit that replayed at least two operations
C16_Witness ==
  /\ running /\ ~storage.in_transaction
  /\ last.op = "commit" /\ last.ok /\ Len(last.hist.txOps) >= 2

\* a is an initial part of b
IsPrefix(a, b) == Len(a) <= Len(b) /\ SubSeq(b, 1, Len(a)) = a

C18_DeleteAbsentNoOp ==
  [][ (last'.op = "delete" /\ ~storage.in_transaction
         /\ last'.key \notin DOMAIN storage.index)
        => (last'.ok /\ storage' = storage) ]_vars

\* a direct delete that wrote nothing to a segment file whose last frame is
\* the record of another key
C18_Witness ==
  /\ running /\ last.op = "delete" /\ ~last.intx /\ last.ok
  /\ DOMAIN storage.index # {}
  /\ \A k \in DOMAIN storage.index : k # last.key
  /\ Len(storage.segment.file) = storage.segment.write_offset

\* C19: in every reachable state of a running engine write_offset equals the
\* length of the segment file: after a set, after a tombstone write, after a
\* commit replay and after a recovery replay.
C19_WriteOffsetIsFileEnd ==
  running => storage.segment.write_offset = Len(storage.segment.file)

\* the bytes of a WAL file that holds exactly the operations ops
RECURSIVE WalBytes(_)
WalBytes(ops) ==
  IF ops = <<>> THEN <<>>
  ELSE Frame(EncodeWalOperation(Head(ops))) \o WalBytes(Tail(ops))

\* the history of the open attempt handled last
OpenHist == IF last.ok THEN last.hist ELSE Hist

\* the process stopped with a WAL file made of the frames of the buffered
\* operations followed by an incomplete frame
TornTail(h) ==
  /\ IsPrefix(WalBytes(h.txOps), h.closed.wal.file)
  /\ Len(h.closed.wal.file) > Len(WalBytes(h.txOps))

\* C14: an open on a WAL file whose final frame is incomplete (size prefix or
\* payload cut short) succeeds with no error, and the complete frames before
\* it are replayed: segment and index are those of an open on the WAL file
\* without the incomplete tail.
C14_TornTailTolerated ==
  (last.op = "open" /\ TornTail(OpenHist))
    => /\ last.ok
       /\ \E r \in {StorageNew(OpenHist.closed.segment.file, WalBytes(OpenHist.txOps))} :
             /\ storage.segment = r.s.segment
             /\ storage.index = r.s.index

\* C15: when commit fails with an I/O error partway through the replay and is
\* then called again until it succeeds, get returns for every key what it
\* returns after one commit of the same transaction with no failure.
C15_RetriedCommitSafe ==
  (last.op = "commit" /\ last.ok /\ last.hist.failed > 0 /\ last.hist.owner # 0)
    => \A k \in Keys :
         StorageGet(storage, k)
           = StorageGet(CommitLoop(last.hist.pre, last.hist.txOps), k)

\* C20: whenever begin_transaction returns an error, an I/O failure while
\* clearing the WAL included, in_transaction has the value it had before the
\* call.
C20_FailedBeginKeepsFlag ==
  (last.op = "begin" /\ ~last.ok) => storage.in_transaction = last.intx

====
